---------------------------- MODULE Spec2Model ----------------------------
(***************************************************************************)
(* A model of ackr (src/ackr.py): the revision naming and storage done by  *)
(* `pull` (one invocation at a time, and two interleaved), the scan of the *)
(* stored tips, the current-revision lookup, the ordered-revisions         *)
(* listing, the `ack` command, the commit-by-commit navigation of `start`, *)
(* `next` and `prev`, and the start-up checks of `main`.                   *)
(*                                                                         *)
(* Text is modelled as sequences of one-character strings, so that the     *)
(* formatting, splitting, prefix/suffix tests, globbing and sorting of the *)
(* source are computed the way the source computes them.                   *)
(***************************************************************************)
EXTENDS Integers, Sequences, FiniteSets, TLC

(***************************************************************************)
(* Bounds of the model.                                                    *)
(***************************************************************************)
\* Number of commits of the growing upstream branch pulled in SpecRevs.
MaxRevs == 11
\* HEAD files that become unreadable in one behaviour of SpecTips.
MaxLost == 1
\* Commits with pairwise different short hashes the author moves between in
\* SpecDistinct.
MaxTips == 3
\* Commits of the branch that SpecNav walks through.
MaxBranch == 3

(***************************************************************************)
(* Text helpers.                                                           *)
(***************************************************************************)
Rep(c, n) == [i \in 1..n |-> c]

Digits == <<"0", "1", "2", "3", "4", "5", "6", "7", "8", "9">>
HexDigits == Digits \o <<"a", "b", "c", "d", "e", "f">>
IsDigit(c) == \E i \in 1..10 : Digits[i] = c
IsHex(c) == \E i \in 1..16 : HexDigits[i] = c

\* str(n) / "{}".format(n) for a natural number.
RECURSIVE DecStr(_)
DecStr(n) == IF n < 10 THEN <<Digits[n + 1]>>
             ELSE DecStr(n \div 10) \o <<Digits[(n % 10) + 1]>>

\* int(s) for a string of decimal digits.
RECURSIVE DecVal(_)
DecVal(s) == IF s = <<>> THEN 0
             ELSE 10 * DecVal(SubSeq(s, 1, Len(s) - 1))
                  + (CHOOSE d \in 0..9 : Digits[d + 1] = s[Len(s)])

\* s[:n]
Take(s, n) == SubSeq(s, 1, IF n < Len(s) THEN n ELSE Len(s))

\* s.startswith(p), s.endswith(p), p in s
StartsWith(s, p) == Len(p) <= Len(s) /\ SubSeq(s, 1, Len(p)) = p
EndsWith(s, p) == Len(p) <= Len(s) /\ SubSeq(s, Len(s) - Len(p) + 1, Len(s)) = p
Contains(s, p) == \E off \in 0..(Len(s) - Len(p)) : SubSeq(s, off + 1, off + Len(p)) = p

\* s.split(".") : the fields between the dots, empty fields kept.
RECURSIVE SplitDot(_)
SplitDot(s) ==
    IF \A i \in 1..Len(s) : s[i] # "."
    THEN <<s>>
    ELSE LET k == CHOOSE i \in 1..Len(s) : s[i] = "." /\ \A j \in 1..(i - 1) : s[j] # "."
         IN  <<SubSeq(s, 1, k - 1)>> \o SplitDot(SubSeq(s, k + 1, Len(s)))

\* Code points of the characters that occur in revision directory names.
Ord(c) == IF c = "-" THEN 45
          ELSE IF c = "." THEN 46
          ELSE IF c = "/" THEN 47
          ELSE IF IsDigit(c) THEN 48 + (CHOOSE d \in 0..9 : Digits[d + 1] = c)
          ELSE IF c = "_" THEN 95
          ELSE 97 + (CHOOSE d \in 0..25 :
                 <<"a","b","c","d","e","f","g","h","i","j","k","l","m",
                   "n","o","p","q","r","s","t","u","v","w","x","y","z">>[d + 1] = c)

\* Python's str ordering: s < t.
RECURSIVE StrLess(_, _)
StrLess(s, t) ==
    IF t = <<>> THEN FALSE
    ELSE IF s = <<>> THEN TRUE
    ELSE IF s[1] # t[1] THEN Ord(s[1]) < Ord(t[1])
    ELSE StrLess(Tail(s), Tail(t))

\* fnmatch of the pattern "[0-9]*.*": a digit, anything, a dot, anything.
GlobNumbered(name) ==
    /\ Len(name) >= 2
    /\ IsDigit(name[1])
    /\ \E i \in 2..Len(name) : name[i] = "."

\* re.match(r'\d+\.', name): one or more digits, then a dot.
MatchDigitsDot(name) ==
    \E k \in 1..(Len(name) - 1) :
        /\ \A i \in 1..k : IsDigit(name[i])
        /\ name[k + 1] = "."

\* grep PATTERN, the pattern an unanchored basic regular expression in which
\* "." stands for any character (the other characters of a tag are literal).
GrepMatches(pat, line) ==
    \E off \in 0..(Len(line) - Len(pat)) :
        \A i \in 1..Len(pat) : pat[i] = "." \/ pat[i] = line[off + i]


(***************************************************************************)
(* Program constants.                                                      *)
(***************************************************************************)
\* len(base_sha) > 40
ShaLen == 40
\* tip_sha[:7]
ShortLen == 7
\* re.sub(...)[:24]
SlugMax == 24
\* head_sha[:6]
AckPrefixLen == 6

\* "ackr/", BY_DATE_DIR.name
AckrPrefix == <<"a", "c", "k", "r", "/">>
ByDateName == <<"b", "y", "-", "d", "a", "t", "e">>

(***************************************************************************)
(* The environment: commits, the reviewed pull request, days.              *)
(***************************************************************************)
\* A full commit hash whose 7-character short hash is decided by k and whose
\* remaining characters are decided by j.
Sha(k, j) == <<HexDigits[(k \div 16) + 1], HexDigits[(k % 16) + 1]>>
             \o Rep("0", 5) \o <<HexDigits[j + 1]>> \o Rep("0", 32)

\* Tips the reviewed branch takes in Spec: two of them share a short hash.
Commits == {Sha(1, 0), Sha(1, 1), Sha(2, 0)}
\* The commit checked out before any review starts (a commit of master).
MasterSha == Sha(0, 0)

\* What `git rev-parse <earliest>~1` leaves on the captured stream: the
\* parent's hash, git's error text (longer than a hash), or nothing at all (the
\* exit status of this call is not checked).
GoodBase == Sha(0, 1)
LongOutput == Rep("f", ShaLen + 1)
BaseOutputs == {GoodBase, LongOutput, <<>>}
\* <<the branch log came back empty, the output of the rev-parse of the base>>
LogOutcomes == {<<TRUE, <<>>>>} \cup {<<FALSE, b>> : b \in BaseOutputs}
\* The outcomes of a healthy git: the parent's hash or an error text.
UsualOutcomes == {o \in LogOutcomes : o[1] \/ o[2] # <<>>}

\* The GitHub API's answer for the reviewed pull request.
PrNumber == DecVal(<<"4", "2">>)
PrLogin == <<"a", "l">>
Titles == { <<"F", "i", "x", " ", "b", "u", "g">>,
            <<"N", "e", "t", ":", " ", "r", "e", "w", "o", "r", "k", " ", "t", "h",
              "e", " ", "p", "e", "e", "r", " ", "m", "a", "n", " ", "n", "o", "w">>,
            <<"!", "!">> }
ApiJson(title) == [number |-> PrNumber, login |-> PrLogin, title |-> title]

\* datetime.date.today().strftime("%Y-%m-%d"): the day of the review.
Today == <<"2", "0", "2", "6", "-", "0", "1", "-", "0", "5">>

(***************************************************************************)
(* PRData.from_json_dict                                                   *)
(***************************************************************************)
Upper == <<"A","B","C","D","E","F","G","H","I","J","K","L","M",
           "N","O","P","Q","R","S","T","U","V","W","X","Y","Z">>
LowerCase == <<"a","b","c","d","e","f","g","h","i","j","k","l","m",
               "n","o","p","q","r","s","t","u","v","w","x","y","z">>
\* str.lower() on one character
Lower(c) == IF \E i \in 1..26 : Upper[i] = c
            THEN LowerCase[CHOOSE i \in 1..26 : Upper[i] = c]
            ELSE c
IsAlnum(c) == IsDigit(c) \/ (\E i \in 1..26 : LowerCase[i] = c) \/ (\E i \in 1..26 : Upper[i] = c)

\* re.sub(r"[^a-zA-Z0-9]+", "_", s): every run of other characters becomes one "_".
RECURSIVE SubNonAlnum(_)
SubNonAlnum(s) ==
    IF s = <<>> THEN <<>>
    ELSE IF IsAlnum(s[1]) THEN <<s[1]>> \o SubNonAlnum(Tail(s))
    ELSE LET rest == SubNonAlnum(Tail(s))
         IN  IF Len(s) >= 2 /\ ~IsAlnum(s[2]) THEN rest ELSE <<"_">> \o rest

\* s.strip("_")
RECURSIVE StripUnderscore(_)
StripUnderscore(s) ==
    IF s = <<>> THEN <<>>
    ELSE IF s[1] = "_" THEN StripUnderscore(Tail(s))
    ELSE IF s[Len(s)] = "_" THEN StripUnderscore(SubSeq(s, 1, Len(s) - 1))
    ELSE s

\* hr_id = re.sub(r"[^a-zA-Z0-9]+", "_", d["title"].lower())[:24].strip("_")
SlugOf(title) ==
    StripUnderscore(Take(SubNonAlnum([i \in 1..Len(title) |-> Lower(title[i])]), SlugMax))
\* The slug of every title, computed once.
SlugTable == [t \in Titles |-> SlugOf(t)]
Slug(title) == SlugTable[title]

\* The titles the pull request carries upstream in Spec.
UpstreamTitles == {t \in Titles : Slug(t) # <<>>}

\* "{}.{}.{}".format(d["number"], author, hr_id)
PrDirName(number, author, hr_id) ==
    DecStr(number) \o <<".">> \o author \o <<".">> \o hr_id

\* ACKR_DIR.glob(f'{d["number"]}.{author}.*') over the entries of ACKR_DIR
\* (the login of a GitHub user holds no glob metacharacter).
GlobPrDirs(listing, number, author) ==
    {n \in listing : StartsWith(n, DecStr(number) \o <<".">> \o author \o <<".">>)}

\* from_json_dict without the reuse of an existing directory: the path and the
\* slug always come from the current title.
FromJsonDictFresh(d, listing, first) ==
    [num |-> d.number, author |-> d.login, json_data |-> d,
     hr_id |-> Slug(d.title),
     ackr_path |-> PrDirName(d.number, d.login, Slug(d.title))]

\* PRData.from_json_dict(d); `first` is existing[0], the entry the glob yields
\* first (used only when the glob yields any).
FromJsonDict(d, listing, first) ==
    LET author == d.login
        existing == GlobPrDirs(listing, d.number, author)
        path == IF existing # {} THEN first
                ELSE PrDirName(d.number, author, Slug(d.title))
        hr_id == IF existing # {} THEN LET f == SplitDot(first) IN f[Len(f)]
                 ELSE Slug(d.title)
    IN  [num |-> d.number, author |-> author, json_data |-> d,
         hr_id |-> hr_id, ackr_path |-> path]

(***************************************************************************)
(* TipData.from_prdata                                                     *)
(***************************************************************************)
NoTip == [tip_sha |-> <<>>, base_sha |-> <<>>, ackr_tag |-> <<>>,
          ackr_seq |-> 0, ackr_path |-> <<>>]

\* "ackr/{}.{}.{}.{}".format(prdata.num, seq, prdata.author, prdata.hr_id)
TagName(num, seq, author, hr_id) ==
    AckrPrefix \o DecStr(num) \o <<".">> \o DecStr(seq) \o <<".">> \o author
    \o <<".">> \o hr_id

\* "{}.{}".format(seq, tip_sha[:7])
RevDirName(seq, tip_sha) == DecStr(seq) \o <<".">> \o Take(tip_sha, ShortLen)

\* The derivation without `already_exists`: every derivation takes a new slot.
DeriveSeqAlwaysNext(preexisting, tip_sha) == Cardinality(preexisting) + 1

\* seq: len(preexisting_paths), plus one unless some path ends with the short
\* hash.  (A short hash holds no "/", so a path ends with it exactly when the
\* entry's name does.)
DeriveSeq(preexisting, tip_sha) ==
    LET shortsha == Take(tip_sha, ShortLen)
        already_exists == \E p \in preexisting : EndsWith(p, shortsha)
    IN  IF already_exists THEN Cardinality(preexisting)
        ELSE Cardinality(preexisting) + 1

\* len(base_sha) > 40: raise die(...)
BaseRejected(base_sha) == Len(base_sha) > ShaLen

\* TipData.from_prdata(prdata): `listing` holds the names inside prdata.ackr_path,
\* `gotlog_empty` says that the branch log came back empty, base_out is the
\* captured output of the rev-parse of the base.
FromPrData(prdata, tip_sha, gotlog_empty, base_out, listing) ==
    IF gotlog_empty THEN [status |-> "crash", tip |-> NoTip]
    ELSE IF BaseRejected(base_out) THEN [status |-> "die", tip |-> NoTip]
    ELSE LET preexisting == {n \in listing : GlobNumbered(n)}
             seq == DeriveSeq(preexisting, tip_sha)
         IN  [status |-> "ok",
              tip |-> [tip_sha |-> tip_sha,
                       base_sha |-> base_out,
                       ackr_tag |-> TagName(prdata.num, seq, prdata.author, prdata.hr_id),
                       ackr_seq |-> seq,
                       ackr_path |-> <<prdata.ackr_path, RevDirName(seq, tip_sha)>>]]


(***************************************************************************)
(* State.                                                                  *)
(***************************************************************************)
VARIABLES
    cwd_ok,       \* ./src and ./.git are directories of the working directory
    remote_ok,    \* .git/config holds [remote "upstream"]
    ackr_exists,  \* ACKR_DIR exists
    entries,      \* names of the directories inside ACKR_DIR
    revs,         \* <<pr dir name, revision dir name>> -> the files of that directory
    by_date,      \* name of a link in BY_DATE_DIR -> the path it points at
    tags,         \* tag name -> tagged commit, in the reviewed repository
    pushed,       \* tag names pushed to the remote
    head,         \* the commit checked out in the reviewed repository
    up_tip,       \* upstream: tip of the pull request's branch
    up_title,     \* upstream: title of the pull request
    state_log,    \* commit messages pushed from ACKR_DIR, a git repository
    fetched,      \* the local ref refs/upstream/pr/N, as the last fetch left it
    running,      \* the pull invocations under way: where each one stands and
                  \* the pr and tip it holds
    last          \* what the command of the last step did (NoResult when the
                  \* last step was none of the reviewer's commands)

vars == <<cwd_ok, remote_ok, ackr_exists, entries, revs, by_date, tags, pushed,
          head, up_tip, up_title, state_log, fetched, running, last>>

\* No fetch has created the ref yet.
NoRef == <<>>
\* No pull invocation is under way.
NoPulls == <<>>

\* The files of a revision directory; each is {} (absent) or {content}.
NewRevDir == [pr_json |-> {}, HEAD |-> {}, base_diff |-> {}, checklist |-> {},
              ack_txt |-> {}, ack_asc |-> {}, current_commit |-> {}]

\* The outcome a command leaves behind: "ok", "die" (sys.exit(1) after a
\* message) or "crash" (an exception nobody catches).  source, msg and steps
\* are those of an `ack` run.
Result(cmd, status, why, tip, changed, again, out) ==
    [cmd |-> cmd, status |-> status, why |-> why, tip |-> tip,
     changed |-> changed, again |-> again, out |-> out,
     source |-> "none", msg |-> <<>>, steps |-> {}]

NoResult == Result("none", "ok", "", NoTip, FALSE, FALSE, {})

\* Names inside one pull request's storage directory.
Listing(pr_path) == {p[2] : p \in {q \in DOMAIN revs : q[1] = pr_path}}

\* The storage directory of the reviewed pull request, when there is one.
PrDirs == GlobPrDirs(entries, PrNumber, PrLogin)
\* The revision directories holding tip_sha in their HEAD file.
RevDirsOf(rv, tip_sha) == {p \in DOMAIN rv : rv[p].HEAD = {tip_sha}}

(***************************************************************************)
(* PRData.existing_tips                                                    *)
(***************************************************************************)
\* The numbered directories of pr_path whose HEAD can be read.
ReadableRevs(pr_path) ==
    {n \in Listing(pr_path) : GlobNumbered(n) /\ revs[<<pr_path, n>>].HEAD # {}}

HeadOf(pr_path, n) == CHOOSE t \in revs[<<pr_path, n>>].HEAD : TRUE

\* A scan that remembers the tip of the highest-numbered directory only.
ExistingTipsLatest(pr_path) ==
    LET latest == {n \in ReadableRevs(pr_path) :
                     \A m \in ReadableRevs(pr_path) :
                        DecVal(SplitDot(m)[1]) <= DecVal(SplitDot(n)[1])}
    IN  [t \in {HeadOf(pr_path, n) : n \in latest} |->
            LET n == CHOOSE m \in latest : HeadOf(pr_path, m) = t
            IN  DecVal(SplitDot(n)[1])]

\* sha_to_seq: tip identifier -> int(name.split(".")[0])
ExistingTips(pr_path) ==
    LET shas == {HeadOf(pr_path, n) : n \in ReadableRevs(pr_path)}
    IN  [t \in shas |->
            LET n == CHOOSE m \in ReadableRevs(pr_path) : HeadOf(pr_path, m) = t
            IN  DecVal(SplitDot(n)[1])]

\* int(seq) raises ValueError unless seq is made of digits.
AllDigits(s) == Len(s) > 0 /\ \A i \in 1..Len(s) : IsDigit(s[i])

\* A scan in which a HEAD that cannot be read ends the scan.
ScanTipsStrict(pr_path) ==
    LET globbed == {n \in Listing(pr_path) : GlobNumbered(n)}
    IN  IF globbed # ReadableRevs(pr_path)
        THEN [status |-> "crash", map |-> <<>>]
        ELSE [status |-> "ok", map |-> ExistingTips(pr_path)]

\* existing_tips() as a run: for every globbed entry, read_text() inside
\* try/except Exception (`continue` on failure), then int(seq) outside it.
ScanTips(pr_path) ==
    LET unparsable == {n \in ReadableRevs(pr_path) : ~AllDigits(SplitDot(n)[1])}
    IN  IF unparsable # {}
        THEN [status |-> "crash", map |-> <<>>]
        ELSE [status |-> "ok", map |-> ExistingTips(pr_path)]

(***************************************************************************)
(* The current-revision locator.                                           *)
(***************************************************************************)
\* _get_current_ackr_tag: the names `git name-rev --tags` may give the checked
\* out commit, kept when they hold "ackr/".
CurrentAckrTags(tagmap, commit) ==
    {t \in DOMAIN tagmap : tagmap[t] = commit /\ Contains(t, AckrPrefix)}

\* _get_current_tag: tag.split("ackr/")[-1] (the tag starts with "ackr/").
CurrentTag(tag) == SubSeq(tag, Len(AckrPrefix) + 1, Len(tag))

\* A lookup that takes the first candidate instead of insisting on exactly one.
GetCurrentRevDirFirst(tag) ==
    LET data == SplitDot(CurrentTag(tag))
        pr_dirs == {n \in entries : StartsWith(n, data[1] \o <<".">>)}
        rev_dirs == {p \in DOMAIN revs :
                        p[1] \in pr_dirs /\ StartsWith(p[2], data[2] \o <<".">>)}
    IN  IF rev_dirs = {} THEN [status |-> "crash", path |-> <<>>]
        ELSE [status |-> "ok", path |-> CHOOSE p \in rev_dirs : TRUE]

\* _get_current_rev_dir on the tag's fields: [pr_dir] = [...], [rev_dir] = [...];
\* a list that does not hold exactly one element raises ValueError.
GetCurrentRevDir(tag) ==
    LET data == SplitDot(CurrentTag(tag))
        num == data[1]
        i == data[2]
        pr_dirs == {n \in entries : StartsWith(n, num \o <<".">>)}
    IN  IF Len(data) < 2 \/ Cardinality(pr_dirs) # 1
        THEN [status |-> "crash", path |-> <<>>]
        ELSE LET pr_dir == CHOOSE n \in pr_dirs : TRUE
                 rev_dirs == {n \in Listing(pr_dir) : StartsWith(n, i \o <<".">>)}
             IN  IF Cardinality(rev_dirs) # 1
                 THEN [status |-> "crash", path |-> <<>>]
                 ELSE [status |-> "ok",
                       path |-> <<pr_dir, CHOOSE n \in rev_dirs : TRUE>>]


(***************************************************************************)
(* The ordered-revisions listing.                                          *)
(***************************************************************************)
\* sorted(names, reverse=True, key=str): the paths share their parent, so the
\* order of the path strings is the order of the names.
SortedReverse(names) ==
    [i \in 1..Cardinality(names) |->
        CHOOSE x \in names : Cardinality({y \in names : StrLess(x, y)}) = i - 1]

\* _get_ordered_rev_dirs(): num is the tag's first field; [pr_dir] = [...]
\* raises ValueError unless exactly one entry starts with "{num}.".
GetOrderedRevDirs(tag) ==
    LET num == SplitDot(CurrentTag(tag))[1]
        pr_dirs == {n \in entries : StartsWith(n, num \o <<".">>)}
    IN  IF Cardinality(pr_dirs) # 1
        THEN [status |-> "crash", dirs |-> <<>>]
        ELSE LET pr_dir == CHOOSE n \in pr_dirs : TRUE
                 names == SortedReverse({n \in Listing(pr_dir) : MatchDigitsDot(n)})
             IN  [status |-> "ok",
                  dirs |-> [i \in 1..Len(names) |-> <<pr_dir, names[i]>>]]

(***************************************************************************)
(* main: the checks and directory creation that precede every command.     *)
(***************************************************************************)
\* _ensure_location fails: nothing has been touched.
MainDiesOnLocation(cmd) ==
    /\ ~cwd_ok
    /\ last' = Result(cmd, "die", "location", NoTip, FALSE, FALSE, {})
    /\ UNCHANGED <<fetched, running, cwd_ok, remote_ok, ackr_exists, entries, revs, by_date, tags,
                   pushed, head, up_tip, up_title, state_log>>

\* ACKR_DIR.mkdir() and BY_DATE_DIR.mkdir() when they do not exist.
EntriesAfterMain == entries \cup {ByDateName}

\* check_remotes fails, after main created the directories.
MainDiesOnRemote(cmd) ==
    /\ cwd_ok
    /\ ~remote_ok
    /\ ackr_exists' = TRUE
    /\ entries' = EntriesAfterMain
    /\ last' = Result(cmd, "die", "remote", NoTip, FALSE, FALSE, {})
    /\ UNCHANGED <<fetched, running, cwd_ok, remote_ok, revs, by_date, tags, pushed, head, up_tip,
                   up_title, state_log>>

\* main reaches cli.run().
MainRuns == cwd_ok /\ remote_ok

(***************************************************************************)
(* pull / _pull                                                            *)
(***************************************************************************)
\* create_tag(): `git tag | grep <tag>` finds nothing => tag the tip and push
\* every tag.
TagFound(tagmap, tag) == \E t \in DOMAIN tagmap : GrepMatches(tag, t)
TagsAfterCreate(tagmap, tip) ==
    IF TagFound(tagmap, tip.ackr_tag) THEN tagmap
    ELSE tagmap @@ (tip.ackr_tag :> tip.tip_sha)
PushedAfterCreate(tagmap, tip) ==
    IF TagFound(tagmap, tip.ackr_tag) THEN pushed
    ELSE pushed \cup DOMAIN TagsAfterCreate(tagmap, tip)

\* today + "." + pr.ackr_path.name + f".{tip.ackr_seq}"
ByDateLink(pr_path, seq) ==
    Today \o <<".">> \o pr_path \o <<".">> \o DecStr(seq)

\* The four artifacts written into a new revision directory.
Artifacts(pr, tip) ==
    [NewRevDir EXCEPT !.pr_json = {pr.json_data},
                      !.HEAD = {tip.tip_sha},
                      !.base_diff = {[base |-> tip.base_sha, tip |-> tip.tip_sha]},
                      !.checklist = {[tip |-> tip.tip_sha, edited |-> FALSE]}]

\* `git checkout <tag>`: the commit of the tag, when there is such a tag.
CheckoutTag(tagmap, tag) == IF tag \in DOMAIN tagmap THEN tagmap[tag] ELSE head

\* Did the previous command pull this very tip with success?
PulledBefore(tip_sha) ==
    last.cmd = "pull" /\ last.status = "ok" /\ last.tip.tip_sha = tip_sha

\* `ackr pull 42` with the network down: git fetch fails (die), nothing written
\* but what main creates.
PullOffline ==
    /\ MainRuns
    /\ ackr_exists' = TRUE
    /\ entries' = EntriesAfterMain
    /\ last' = Result("pull", "die", "fetch", NoTip, FALSE, FALSE, {})
    /\ UNCHANGED <<fetched, running, cwd_ok, remote_ok, revs, by_date, tags, pushed, head, up_tip,
                   up_title, state_log>>

\* `ackr pull 42`, the fetches and the API call succeeding.
PullOnline(gotlog_empty, base_out) ==
    /\ MainRuns
    /\ ackr_exists' = TRUE
    /\ \E first \in (IF GlobPrDirs(EntriesAfterMain, PrNumber, PrLogin) = {}
                     THEN {<<>>}
                     ELSE GlobPrDirs(EntriesAfterMain, PrNumber, PrLogin)) :
        LET pr == FromJsonDict(ApiJson(up_title), EntriesAfterMain, first)
            derived == FromPrData(pr, up_tip, gotlog_empty, base_out,
                                  Listing(pr.ackr_path))
            tip == derived.tip
        IN  \* pr.ackr_path.mkdir(exist_ok=True)
            /\ entries' = EntriesAfterMain \cup {pr.ackr_path}
            /\ IF derived.status # "ok"
               THEN /\ last' = Result("pull", derived.status, "derive", NoTip,
                                      FALSE, FALSE, {})
                    /\ UNCHANGED <<revs, by_date, tags, pushed, head, state_log>>
               ELSE IF ScanTips(pr.ackr_path).status # "ok"
               THEN \* pr.existing_tips() raises
                    /\ last' = Result("pull", "crash", "scan", NoTip, FALSE, FALSE, {})
                    /\ UNCHANGED <<revs, by_date, tags, pushed, head, state_log>>
               ELSE IF tip.tip_sha \in DOMAIN ScanTips(pr.ackr_path).map
               THEN \* create_tag(); return (tip, False)
                    /\ tags' = TagsAfterCreate(tags, tip)
                    /\ pushed' = PushedAfterCreate(tags, tip)
                    /\ last' = Result("pull", "ok", "", tip, FALSE,
                                      PulledBefore(tip.tip_sha), {"PR up to date"})
                    /\ UNCHANGED <<revs, by_date, head, state_log>>
               ELSE IF tip.ackr_path \in DOMAIN revs
               THEN \* tip.ackr_path.mkdir() raises FileExistsError
                    /\ last' = Result("pull", "crash", "mkdir", NoTip, FALSE, FALSE, {})
                    /\ UNCHANGED <<revs, by_date, tags, pushed, head, state_log>>
               ELSE LET link == ByDateLink(pr.ackr_path, tip.ackr_seq)
                        newtags == TagsAfterCreate(tags, tip)
                        newhead == CheckoutTag(newtags, tip.ackr_tag)
                        current == CurrentAckrTags(newtags, newhead)
                    IN  /\ revs' = revs @@ (tip.ackr_path :> Artifacts(pr, tip))
                        \* ln into an existing link lands inside its target
                        /\ by_date' = IF link \in DOMAIN by_date THEN by_date
                                      ELSE by_date @@ (link :> tip.ackr_path)
                        /\ tags' = newtags
                        /\ pushed' = PushedAfterCreate(tags, tip)
                        /\ head' = newhead
                        /\ IF current = {}
                           THEN \* _get_current_tag() dies: HEAD not recognized
                                /\ last' = Result("pull", "die", "head", tip, TRUE,
                                                  FALSE, {"Got new tip"})
                                /\ UNCHANGED state_log
                           ELSE /\ last' = Result("pull", "ok", "", tip, TRUE,
                                                  PulledBefore(tip.tip_sha),
                                                  {"Got new tip"})
                                /\ \E cur \in current :
                                     state_log' = state_log \cup
                                        {<<"Started review", CurrentTag(cur)>>}
    /\ fetched' = up_tip
    /\ UNCHANGED <<running, cwd_ok, remote_ok, up_tip, up_title>>

(***************************************************************************)
(* review                                                                  *)
(***************************************************************************)
\* `ackr review`: the reviewer edits the checklist of the checked-out revision.
ReviewRuns ==
    /\ MainRuns
    /\ ackr_exists' = TRUE
    /\ entries' = EntriesAfterMain
    /\ IF CurrentAckrTags(tags, head) = {}
       THEN \* die("HEAD not recognized by ackr ...")
            /\ last' = Result("review", "die", "head", NoTip, FALSE, FALSE, {})
            /\ UNCHANGED <<revs, state_log>>
       ELSE \E tag \in CurrentAckrTags(tags, head) :
            LET found == GetCurrentRevDir(tag)
                rev_dir == found.path
            IN  IF found.status # "ok"
                THEN /\ last' = Result("review", "crash", "lookup", NoTip, FALSE,
                                       FALSE, {})
                     /\ UNCHANGED <<revs, state_log>>
                ELSE /\ revs' = [revs EXCEPT ![rev_dir].checklist =
                                    {[tip |-> HeadOf(rev_dir[1], rev_dir[2]),
                                      edited |-> TRUE]}]
                     /\ state_log' = state_log \cup
                                        {<<"Review progress on", CurrentTag(tag)>>}
                     /\ last' = Result("review", "ok", "", NoTip, FALSE, FALSE,
                                       {rev_dir})
    /\ UNCHANGED <<fetched, running, cwd_ok, remote_ok, by_date, tags, pushed, head, up_tip, up_title>>

Review ==
    \/ MainDiesOnLocation("review")
    \/ MainDiesOnRemote("review")
    \/ ReviewRuns

(***************************************************************************)
(* revs, interdiff                                                         *)
(***************************************************************************)
\* `ackr revs`: print the revision directories of the checked-out pull request.
RevsRuns ==
    /\ MainRuns
    /\ ackr_exists' = TRUE
    /\ entries' = EntriesAfterMain
    /\ IF CurrentAckrTags(tags, head) = {}
       THEN last' = Result("revs", "die", "head", NoTip, FALSE, FALSE, {})
       ELSE \E tag \in CurrentAckrTags(tags, head) :
            LET ordered == GetOrderedRevDirs(tag)
            IN  IF ordered.status # "ok"
                THEN last' = Result("revs", "crash", "lookup", NoTip, FALSE, FALSE, {})
                ELSE last' = Result("revs", "ok", "", NoTip, FALSE, FALSE,
                                    {ordered.dirs})
    /\ UNCHANGED <<fetched, running, cwd_ok, remote_ok, revs, by_date, tags, pushed, head, up_tip,
                   up_title, state_log>>

\* `ackr interdiff`: [rev, prev_rev, *_] = _get_ordered_rev_dirs(), then the
\* diff of prev_rev/base.diff and rev/base.diff.
InterdiffRuns ==
    /\ MainRuns
    /\ ackr_exists' = TRUE
    /\ entries' = EntriesAfterMain
    /\ IF CurrentAckrTags(tags, head) = {}
       THEN last' = Result("interdiff", "die", "head", NoTip, FALSE, FALSE, {})
       ELSE \E tag \in CurrentAckrTags(tags, head) :
            LET ordered == GetOrderedRevDirs(tag)
            IN  IF ordered.status # "ok" \/ Len(ordered.dirs) < 2
                THEN last' = Result("interdiff", "crash", "lookup", NoTip, FALSE,
                                    FALSE, {})
                ELSE last' = Result("interdiff", "ok", "", NoTip, FALSE, FALSE,
                                    {[rev |-> ordered.dirs[1],
                                      prev_rev |-> ordered.dirs[2]]})
    /\ UNCHANGED <<fetched, running, cwd_ok, remote_ok, revs, by_date, tags, pushed, head, up_tip,
                   up_title, state_log>>

(***************************************************************************)
(* ack                                                                     *)
(***************************************************************************)
\* ACKR_GH_USER, by default.
GhUser == <<"j", "a", "m", "e", "s", "o", "b">>
AckWord == <<"A", "C", "K", " ">>

\* header_txt: "ACK ", the full hash, then the tag as a link to tag_url.
TagUrl(tag) ==
    <<"h", "t", "t", "p", "s", ":", "/", "/", "g", "i", "t", "h", "u", "b", ".", "c", "o", "m", "/">>
        \o GhUser \o <<"/", "b", "i", "t", "c", "o", "i", "n", "/", "t", "r", "e", "e", "/">> \o tag
\* (the grave accents around the tag are written "'" here)
HeaderTxt(head_sha, tag) ==
    AckWord \o head_sha \o <<" ", "(", "[", "'">> \o GhUser \o <<"/">> \o tag
        \o <<"'", "]", "(">> \o TagUrl(tag) \o <<")", ")", "\n", "\n">>

\* What the reviewer types, pipes in or keeps in a file, for head_sha.
ReviewerMessages(head_sha) ==
    { AckWord \o Take(head_sha, AckPrefixLen) \o <<" ", "o", "k">>,
      AckWord \o Take(head_sha, AckPrefixLen - 1),
      <<"a", "c", "k", " ">> \o Take(head_sha, AckPrefixLen) }

\* A marker test that looks for one character less of the hash.
MarkerMissingShort(msg, head_sha) ==
    ~Contains(msg, AckWord \o Take(head_sha, AckPrefixLen - 1))

\* if f"ACK {head_sha[:6]}" not in msg
MarkerMissing(msg, head_sha) ==
    ~Contains(msg, AckWord \o Take(head_sha, AckPrefixLen))

\* The result of an `ack` run: where the message came from, the message read
\* (<<>> before any was read) and the steps the run got through.
AckResult(status, why, source, msg, steps) ==
    [Result("ack", status, why, NoTip, FALSE, FALSE, {})
        EXCEPT !.source = source, !.msg = msg, !.steps = steps]

\* Everything after the message was read from source; files are the
\* revision directories as the message source left them.
AckWithMessage(rev_dir, tag, source, msg, files, key_ok, gpg_ok, push_ok) ==
    IF MarkerMissing(msg, head)
    THEN \* die("message contains incorrect hash")
         /\ revs' = files
         /\ last' = AckResult("die", "marker", source, msg, {"read"})
         /\ UNCHANGED <<pushed, state_log>>
    ELSE LET written == [files EXCEPT ![rev_dir].ack_txt = {msg}]
         IN  IF ~key_ok
             THEN \* die("you need to configure git's user.signingkey")
                  /\ revs' = written
                  /\ last' = AckResult("die", "key", source, msg, {"read", "wrote"})
                  /\ UNCHANGED <<pushed, state_log>>
             ELSE IF ~gpg_ok
             THEN \* _sh(..., check=True) calls die(): sys.exit raises SystemExit,
                  \* which `except Exception` does not catch.
                  /\ revs' = written
                  /\ last' = AckResult("die", "gpg", source, msg, {"read", "wrote"})
                  /\ UNCHANGED <<pushed, state_log>>
             ELSE /\ revs' = [written EXCEPT ![rev_dir].ack_asc =
                                                 {[clearsigned |-> msg]}]
                  \* git push --no-verify origin {tag}: its failure is ignored
                  /\ pushed' = IF push_ok THEN pushed \cup {tag} ELSE pushed
                  /\ state_log' = state_log \cup {<<"ACK:", CurrentTag(tag)>>}
                  /\ last' = AckResult("ok", "", source, msg,
                                       {"read", "wrote", "signed", "printed",
                                        "pushed", "committed"})

\* `ackr ack [msg_file]`
AckRuns ==
    /\ MainRuns
    /\ ackr_exists' = TRUE
    /\ entries' = EntriesAfterMain
    /\ IF CurrentAckrTags(tags, head) = {}
       THEN \* die("HEAD not recognized by ackr ...")
            /\ last' = AckResult("die", "head", "none", <<>>, {})
            /\ UNCHANGED <<revs, pushed, state_log>>
       ELSE \E tag \in CurrentAckrTags(tags, head), config_log \in BOOLEAN :
            LET found == GetCurrentRevDir(tag)
                rev_dir == found.path
            IN  IF found.status # "ok"
                THEN /\ last' = AckResult("crash", "lookup", "none", <<>>, {})
                     /\ UNCHANGED <<revs, pushed, state_log>>
                ELSE IF ~config_log
                THEN \* _parse_configure_log() returns {}: KeyError
                     /\ last' = AckResult("crash", "config", "none", <<>>, {})
                     /\ UNCHANGED <<revs, pushed, state_log>>
                ELSE \E key_ok \in BOOLEAN, gpg_ok \in BOOLEAN, push_ok \in BOOLEAN :
                     \/ \* msg_file == "-": sys.stdin.read()
                        \E msg \in ReviewerMessages(head) :
                           AckWithMessage(rev_dir, tag, "stdin", msg, revs,
                                          key_ok, gpg_ok, push_ok)
                     \/ \* no msg_file: the editor on ack_message.txt, which
                        \* starts as header_txt when it does not exist
                        LET start == IF revs[rev_dir].ack_txt = {}
                                     THEN HeaderTxt(head, tag)
                                     ELSE CHOOSE m \in revs[rev_dir].ack_txt : TRUE
                        IN  \/ \* the editor exits non-zero: CalledProcessError
                               /\ revs' = [revs EXCEPT ![rev_dir].ack_txt = {start}]
                               /\ last' = AckResult("crash", "editor", "editor",
                                                    <<>>, {})
                               /\ UNCHANGED <<pushed, state_log>>
                            \/ \E msg \in ReviewerMessages(head) \cup {start} :
                                  AckWithMessage(rev_dir, tag, "editor", msg,
                                     [revs EXCEPT ![rev_dir].ack_txt = {msg}],
                                     key_ok, gpg_ok, push_ok)
                     \/ \* msg_file is a file
                        \E msg \in ReviewerMessages(head) :
                           AckWithMessage(rev_dir, tag, "file", msg, revs,
                                          key_ok, gpg_ok, push_ok)
                     \/ \* die(f"bad path given: {msg_file}")
                        /\ last' = AckResult("die", "path", "badpath", <<>>, {})
                        /\ UNCHANGED <<revs, pushed, state_log>>
    /\ UNCHANGED <<fetched, running, cwd_ok, remote_ok, by_date, tags, head, up_tip, up_title>>

Ack ==
    \/ MainDiesOnLocation("ack")
    \/ MainDiesOnRemote("ack")
    \/ AckRuns

(***************************************************************************)
(* start, next, prev                                                       *)
(***************************************************************************)
\* The k-th tip of a branch that grows by one commit per push.
LinearTip(k) == Sha(k, 0)

\* The commits the repository holds.
KnownCommits == Commits \cup {MasterSha, GoodBase}
                   \cup {LinearTip(k) : k \in 1..(MaxRevs + 1)}

\* The commits of upstream/master..tip, oldest first: a tip of the growing
\* branch has every earlier tip under it, any other tip stands alone.
BranchOf(tip) ==
    IF \E k \in 1..(MaxRevs + 1) : tip = LinearTip(k)
    THEN LET k == CHOOSE j \in 1..(MaxRevs + 1) : tip = LinearTip(j)
         IN  [i \in 1..k |-> LinearTip(i)]
    ELSE <<tip>>

\* git log --oneline: the shortest prefix of at least 7 characters that no
\* other commit of the repository shares.
AbbrevOf(c) ==
    LET n == CHOOSE m \in ShortLen..ShaLen :
                /\ \A d \in KnownCommits \ {c} : Take(d, m) # Take(c, m)
                /\ \A l \in ShortLen..(m - 1) :
                      \E d \in KnownCommits \ {c} : Take(d, l) = Take(c, l)
    IN  Take(c, n)
AbbrevTable == [c \in KnownCommits |-> AbbrevOf(c)]
Abbrev(c) == AbbrevTable[c]

\* git checkout <abbreviation>: the commits the abbreviation names.
Resolve(abbrev) == {c \in KnownCommits : StartsWith(c, abbrev)}

\* get_branch_commits(branch), reversed: oldest first, abbreviated.
BranchCommits(tagmap, tag) ==
    LET b == BranchOf(tagmap[tag])
    IN  [i \in 1..Len(b) |-> Abbrev(b[i])]

\* How many commits `commit` lies under the tip of `tag`; -1 when it is not
\* on the branch of that tag.
Under(tagmap, tag, commit) ==
    LET b == BranchOf(tagmap[tag])
    IN  IF \E i \in 1..Len(b) : b[i] = commit
        THEN Len(b) - (CHOOSE i \in 1..Len(b) : b[i] = commit)
        ELSE 0 - 1

\* git name-rev --tags --name-only: the nearest tags above the commit, kept
\* when they hold "ackr/"; the name of a commit below the tag ends in "~n".
NameRev(tagmap, commit) ==
    LET above == {t \in DOMAIN tagmap : Under(tagmap, t, commit) >= 0}
        nearest == {t \in above : \A u \in above :
                       Under(tagmap, t, commit) <= Under(tagmap, u, commit)}
    IN  {t \in nearest : Contains(t, AckrPrefix)}

NameOf(tagmap, tag, commit) ==
    IF Under(tagmap, tag, commit) = 0 THEN tag
    ELSE tag \o <<"~">> \o DecStr(Under(tagmap, tag, commit))

\* branch.split('~', 1)[0]
NipTilde(name) ==
    IF \E i \in 1..Len(name) : name[i] = "~"
    THEN SubSeq(name, 1, (CHOOSE i \in 1..Len(name) :
                            name[i] = "~" /\ \A j \in 1..(i - 1) : name[j] # "~") - 1)
    ELSE name

\* list.index(x): the first position of x, 0 when x is not in the list.
IndexOf(list, x) ==
    IF \E i \in 1..Len(list) : list[i] = x
    THEN CHOOSE i \in 1..Len(list) : list[i] = x /\ \A j \in 1..(i - 1) : list[j] # x
    ELSE 0

\* A move without the test for i < 0: a negative index counts from the end.
NextTargetWrap(commits, idx, move) ==
    LET i == idx + move
    IN  IF i > Len(commits) \/ i <= 0 - Len(commits)
        THEN [status |-> "die", why |-> "range", commit |-> <<>>]
        ELSE [status |-> "ok", why |-> "",
              commit |-> IF i >= 1 THEN commits[i] ELSE commits[Len(commits) + i]]

\* next: i = idx + move; die("at base commit") when i < 0, die on IndexError,
\* else commits[i].  Positions here count from 1.
NextTarget(commits, idx, move) ==
    LET i == idx + move
    IN  IF i < 1 THEN [status |-> "die", why |-> "base", commit |-> <<>>]
        ELSE IF i > Len(commits)
        THEN [status |-> "die", why |-> "range", commit |-> <<>>]
        ELSE [status |-> "ok", why |-> "", commit |-> commits[i]]

\* _pull(prnum) as start calls it: what it leaves behind, given the entry
\* `first` that the storage-directory glob yields first.
PullCore(first) ==
    LET pr == FromJsonDict(ApiJson(up_title), EntriesAfterMain, first)
        derived == FromPrData(pr, up_tip, FALSE, GoodBase, Listing(pr.ackr_path))
        tip == derived.tip
        link == ByDateLink(pr.ackr_path, tip.ackr_seq)
        same == [status |-> "ok", entries |-> EntriesAfterMain \cup {pr.ackr_path},
                 revs |-> revs, by_date |-> by_date, tags |-> tags,
                 pushed |-> pushed, changed |-> FALSE]
    IN  IF derived.status # "ok" THEN [same EXCEPT !.status = derived.status]
        ELSE IF ScanTips(pr.ackr_path).status # "ok"
        THEN [same EXCEPT !.status = "crash"]
        ELSE IF tip.tip_sha \in DOMAIN ScanTips(pr.ackr_path).map
        THEN [same EXCEPT !.tags = TagsAfterCreate(tags, tip),
                          !.pushed = PushedAfterCreate(tags, tip)]
        ELSE IF tip.ackr_path \in DOMAIN revs
        THEN [same EXCEPT !.status = "crash"]
        ELSE [same EXCEPT !.revs = revs @@ (tip.ackr_path :> Artifacts(pr, tip)),
                          !.by_date = IF link \in DOMAIN by_date THEN by_date
                                      ELSE by_date @@ (link :> tip.ackr_path),
                          !.tags = TagsAfterCreate(tags, tip),
                          !.pushed = PushedAfterCreate(tags, tip),
                          !.changed = TRUE]

\* The outcome of start or next: the revision directory whose marker was
\* used and the move asked for.
NavResult(cmd, status, why, rev_dir, move) ==
    Result(cmd, status, why, NoTip, FALSE, FALSE,
           {[rev_dir |-> rev_dir, move |-> move]})

\* `ackr start`
StartRuns ==
    /\ MainRuns
    /\ ackr_exists' = TRUE
    /\ IF NameRev(tags, head) = {}
       THEN \* _get_current_pr_num dies: HEAD not recognized
            /\ last' = NavResult("start", "die", "head", <<>>, 0)
            /\ entries' = EntriesAfterMain
            /\ UNCHANGED <<revs, by_date, tags, pushed, head, fetched>>
       ELSE \E first \in (IF GlobPrDirs(EntriesAfterMain, PrNumber, PrLogin) = {}
                          THEN {<<>>}
                          ELSE GlobPrDirs(EntriesAfterMain, PrNumber, PrLogin)),
               tag \in NameRev(tags, head) :
            LET pulled == PullCore(first)
                found == GetCurrentRevDir(NameOf(tags, tag, head))
                rev_dir == found.path
                commits == BranchCommits(tags, NipTilde(NameOf(tags, tag, head)))
                marker == pulled.revs[rev_dir].current_commit
            IN  /\ fetched' = up_tip
                /\ entries' = pulled.entries
                /\ by_date' = pulled.by_date
                /\ tags' = pulled.tags
                /\ pushed' = pulled.pushed
                /\ IF pulled.status # "ok"
                   THEN /\ last' = NavResult("start", pulled.status, "pull", <<>>, 0)
                        /\ revs' = pulled.revs
                        /\ UNCHANGED head
                   ELSE IF found.status # "ok"
                   THEN /\ last' = NavResult("start", "crash", "lookup", <<>>, 0)
                        /\ revs' = pulled.revs
                        /\ UNCHANGED head
                   ELSE IF marker # {}
                   THEN \E commit \in marker :
                        IF IndexOf(commits, commit) = 0
                        THEN \* assert commit in commits
                             /\ last' = NavResult("start", "crash", "assert",
                                                  rev_dir, 0)
                             /\ revs' = pulled.revs
                             /\ UNCHANGED head
                        ELSE /\ last' = NavResult("start", "ok", "", rev_dir, 0)
                             /\ revs' = pulled.revs
                             /\ head' \in Resolve(commit)
                   ELSE \* marker.write_text(commits[-1]) of the latest-first list
                        /\ last' = NavResult("start", "ok", "", rev_dir, 0)
                        /\ revs' = [pulled.revs EXCEPT
                                       ![rev_dir].current_commit = {commits[1]}]
                        /\ head' \in Resolve(commits[1])
    /\ UNCHANGED <<cwd_ok, remote_ok, up_tip, up_title, state_log, running>>

Start ==
    \/ MainDiesOnLocation("start")
    \/ MainDiesOnRemote("start")
    \/ StartRuns

\* `ackr next --move <move>`; `ackr prev` is next(-1).
NextRuns(cmd, move) ==
    /\ MainRuns
    /\ ackr_exists' = TRUE
    /\ entries' = EntriesAfterMain
    /\ IF NameRev(tags, head) = {}
       THEN /\ last' = NavResult(cmd, "die", "head", <<>>, move)
            /\ UNCHANGED <<revs, head>>
       ELSE \E tag \in NameRev(tags, head) :
            LET found == GetCurrentRevDir(NameOf(tags, tag, head))
                rev_dir == found.path
                commits == BranchCommits(tags, NipTilde(NameOf(tags, tag, head)))
            IN  IF found.status # "ok"
                THEN /\ last' = NavResult(cmd, "crash", "lookup", <<>>, move)
                     /\ UNCHANGED <<revs, head>>
                ELSE IF revs[rev_dir].current_commit = {}
                THEN \* start(_get_current_pr_num()): start takes no argument
                     /\ last' = NavResult(cmd, "crash", "start", rev_dir, move)
                     /\ UNCHANGED <<revs, head>>
                ELSE \E commit \in revs[rev_dir].current_commit :
                     LET idx == IndexOf(commits, commit)
                         target == NextTarget(commits, idx, move)
                     IN  IF idx = 0
                         THEN \* die("commit ... not in branch history")
                              /\ last' = NavResult(cmd, "die", "history",
                                                   rev_dir, move)
                              /\ UNCHANGED <<revs, head>>
                         ELSE IF target.status # "ok"
                         THEN /\ last' = NavResult(cmd, "die", target.why,
                                                   rev_dir, move)
                              /\ UNCHANGED <<revs, head>>
                         ELSE /\ last' = NavResult(cmd, "ok", "", rev_dir, move)
                              /\ head' \in Resolve(target.commit)
                              /\ revs' = [revs EXCEPT ![rev_dir].current_commit =
                                                         {target.commit}]
    /\ UNCHANGED <<cwd_ok, remote_ok, by_date, tags, pushed, up_tip, up_title,
                   state_log, fetched, running>>

Moves == {1, 2}

NextCmd ==
    \/ MainDiesOnLocation("next")
    \/ MainDiesOnRemote("next")
    \/ \E move \in Moves : NextRuns("next", move)

Prev ==
    \/ MainDiesOnLocation("prev")
    \/ MainDiesOnRemote("prev")
    \/ NextRuns("prev", 0 - 1)

(***************************************************************************)
(* The environment.                                                        *)
(***************************************************************************)
\* The author pushes to the branch of the pull request.
UpstreamPush ==
    /\ \E c \in Commits \ {up_tip} : up_tip' = c
    /\ UNCHANGED <<fetched, running, cwd_ok, remote_ok, ackr_exists, entries, revs, by_date, tags,
                   pushed, head, up_title, state_log>>
    /\ last' = NoResult

\* The author renames the pull request.
UpstreamRename ==
    /\ \E t \in UpstreamTitles \ {up_title} : up_title' = t
    /\ UNCHANGED <<fetched, running, cwd_ok, remote_ok, ackr_exists, entries, revs, by_date, tags,
                   pushed, head, up_tip, state_log>>
    /\ last' = NoResult

\* The reviewer changes into the project root / adds the upstream remote.
FixEnvironment ==
    /\ \/ ~cwd_ok /\ cwd_ok' = TRUE /\ UNCHANGED remote_ok
       \/ ~remote_ok /\ remote_ok' = TRUE /\ UNCHANGED cwd_ok
    /\ last' = NoResult
    /\ UNCHANGED <<fetched, running, ackr_exists, entries, revs, by_date, tags,
                   pushed, head, up_tip, up_title, state_log>>

(***************************************************************************)
(* Spec: pulls of one pull request, one command at a time.                 *)
(***************************************************************************)
Init ==
    /\ cwd_ok \in BOOLEAN
    /\ remote_ok \in BOOLEAN
    /\ ackr_exists = FALSE
    /\ entries = {}
    /\ revs = <<>>
    /\ by_date = <<>>
    /\ tags = <<>>
    /\ pushed = {}
    /\ head = MasterSha
    /\ up_tip \in Commits
    /\ up_title \in UpstreamTitles
    /\ state_log = {}
    /\ last = NoResult
    /\ fetched = NoRef
    /\ running = NoPulls

Pull(outcomes) ==
    \/ MainDiesOnLocation("pull")
    \/ MainDiesOnRemote("pull")
    \/ PullOffline
    \/ \E o \in outcomes : PullOnline(o[1], o[2])

Next ==
    \/ Pull(UsualOutcomes)
    \/ UpstreamPush
    \/ UpstreamRename
    \/ FixEnvironment

Spec == Init /\ [][Next]_vars

(***************************************************************************)
(* SpecReview: pulls, and the reviewer editing checklists in between.      *)
(***************************************************************************)
NextReview ==
    \/ Pull(UsualOutcomes)
    \/ Review
    \/ UpstreamPush
    \/ UpstreamRename
    \/ FixEnvironment

SpecReview == Init /\ [][NextReview]_vars

(***************************************************************************)
(* SpecDerive: pulls whose base lookup may also come back short.           *)
(***************************************************************************)
NextDerive ==
    \/ Pull(LogOutcomes)
    \/ UpstreamPush
    \/ FixEnvironment

SpecDerive == Init /\ [][NextDerive]_vars


(***************************************************************************)
(* SpecRevs: a branch that grows by one commit per push, each push pulled  *)
(* by the reviewer, and the listing commands.                              *)
(***************************************************************************)
\* The author pushes one more commit, once the reviewer has pulled the tip.
PushNext ==
    /\ RevDirsOf(revs, up_tip) # {}
    /\ \E k \in 1..(MaxRevs - 1) :
          /\ up_tip = LinearTip(k)
          /\ up_tip' = LinearTip(k + 1)
    /\ last' = NoResult
    /\ UNCHANGED <<fetched, running, cwd_ok, remote_ok, ackr_exists, entries, revs, by_date, tags,
                   pushed, head, up_title, state_log>>

InitRevs ==
    /\ cwd_ok = TRUE
    /\ remote_ok = TRUE
    /\ ackr_exists = FALSE
    /\ entries = {}
    /\ revs = <<>>
    /\ by_date = <<>>
    /\ tags = <<>>
    /\ pushed = {}
    /\ head = MasterSha
    /\ up_tip = LinearTip(1)
    /\ up_title \in UpstreamTitles
    /\ state_log = {}
    /\ last = NoResult
    /\ fetched = NoRef
    /\ running = NoPulls

NextRevs ==
    \/ PullOnline(FALSE, GoodBase)
    \/ PushNext
    \/ RevsRuns
    \/ InterdiffRuns

SpecRevs == InitRevs /\ [][NextRevs]_vars

(***************************************************************************)
(* SpecAck: one revision of the pull request, pulled and acknowledged.     *)
(***************************************************************************)
InitAck ==
    /\ cwd_ok \in BOOLEAN
    /\ remote_ok \in BOOLEAN
    /\ ackr_exists = FALSE
    /\ entries = {}
    /\ revs = <<>>
    /\ by_date = <<>>
    /\ tags = <<>>
    /\ pushed = {}
    /\ head = MasterSha
    /\ up_tip = LinearTip(1)
    /\ up_title \in UpstreamTitles
    /\ state_log = {}
    /\ last = NoResult
    /\ fetched = NoRef
    /\ running = NoPulls

NextAck ==
    \/ PullOnline(FALSE, GoodBase)
    \/ Ack
    \/ FixEnvironment

SpecAck == InitAck /\ [][NextAck]_vars

(***************************************************************************)
(* SpecTips: pulls over a storage directory in which HEAD files get lost.  *)
(***************************************************************************)
\* The HEAD file of a revision directory becomes unreadable.
LoseHead ==
    /\ Cardinality({p \in DOMAIN revs : revs[p].HEAD = {}}) < MaxLost
    /\ \E p \in DOMAIN revs :
          /\ revs[p].HEAD # {}
          /\ revs' = [revs EXCEPT ![p].HEAD = {}]
    /\ last' = NoResult
    /\ UNCHANGED <<fetched, running, cwd_ok, remote_ok, ackr_exists, entries, by_date, tags, pushed,
                   head, up_tip, up_title, state_log>>

InitTips ==
    /\ cwd_ok = TRUE
    /\ remote_ok = TRUE
    /\ ackr_exists = FALSE
    /\ entries = {}
    /\ revs = <<>>
    /\ by_date = <<>>
    /\ tags = <<>>
    /\ pushed = {}
    /\ head = MasterSha
    /\ up_tip \in Commits
    /\ up_title \in UpstreamTitles
    /\ state_log = {}
    /\ last = NoResult
    /\ fetched = NoRef
    /\ running = NoPulls

NextTips ==
    \/ PullOnline(FALSE, GoodBase)
    \/ UpstreamPush
    \/ LoseHead

SpecTips == InitTips /\ [][NextTips]_vars

(***************************************************************************)
(* SpecConcurrent: two pull invocations for the same pull request, their   *)
(* steps interleaved, while the author pushes.                             *)
(***************************************************************************)
Procs == {"first", "second"}

\* An invocation that has not started; pc then runs through "fetched",
\* "derived", "made", "tagged", "written" to "done".
Idle == [pc |-> "idle", pr |-> [ackr_path |-> <<>>], tip |-> NoTip,
         preexisting |-> {}]

\* A creation that derives the sequence number again, from the listing as it
\* is when the directory is made.
CreatePathFresh(p) ==
    LET pr_path == running[p].pr.ackr_path
        tip_sha == running[p].tip.tip_sha
    IN  <<pr_path,
          RevDirName(DeriveSeq({n \in Listing(pr_path) : GlobNumbered(n)}, tip_sha),
                     tip_sha)>>

\* The directory an invocation creates: tip.ackr_path, as derived earlier.
CreatePath(p) == running[p].tip.ackr_path

\* An invocation ends with result.
Ends(p, result) ==
    /\ running' = [running EXCEPT ![p].pc = "done"]
    /\ last' = result

\* An invocation moves on to pc.
Goes(p, pc) ==
    /\ running' = [running EXCEPT ![p].pc = pc]
    /\ last' = NoResult

\* main, then pull up to _fetch_upstream: the local ref follows upstream.
CFetch(p) ==
    /\ running[p].pc = "idle"
    /\ MainRuns
    /\ ackr_exists' = TRUE
    /\ entries' = EntriesAfterMain
    /\ fetched' = up_tip
    /\ Goes(p, "fetched")
    /\ UNCHANGED <<cwd_ok, remote_ok, revs, by_date, tags, pushed, head, up_tip,
                   up_title, state_log>>

\* from_json_dict, pr.ackr_path.mkdir(exist_ok=True), from_prdata: the tip is
\* what the ref holds now, the sequence number comes from the listing now.
CDerive(p) ==
    /\ running[p].pc = "fetched"
    /\ \E first \in (IF GlobPrDirs(entries, PrNumber, PrLogin) = {}
                     THEN {<<>>}
                     ELSE GlobPrDirs(entries, PrNumber, PrLogin)) :
        LET pr == FromJsonDict(ApiJson(up_title), entries, first)
            listing == Listing(pr.ackr_path)
            derived == FromPrData(pr, fetched, FALSE, GoodBase, listing)
        IN  /\ entries' = entries \cup {pr.ackr_path}
            /\ running' = [running EXCEPT ![p] =
                              [pc |-> "derived", pr |-> pr, tip |-> derived.tip,
                               preexisting |-> {n \in listing : GlobNumbered(n)}]]
    /\ last' = NoResult
    /\ UNCHANGED <<cwd_ok, remote_ok, ackr_exists, revs, by_date, tags, pushed,
                   head, up_tip, up_title, state_log, fetched>>

\* if tip.tip_sha in pr.existing_tips(): create_tag(); return
\* tip.ackr_path.mkdir()
CMake(p) ==
    LET pr == running[p].pr
        tip == running[p].tip
    IN  /\ running[p].pc = "derived"
        /\ IF tip.tip_sha \in DOMAIN ScanTips(pr.ackr_path).map
           THEN /\ tags' = TagsAfterCreate(tags, tip)
                /\ pushed' = PushedAfterCreate(tags, tip)
                /\ Ends(p, Result("pull", "ok", "", tip, FALSE, FALSE,
                                  {"PR up to date"}))
                /\ UNCHANGED revs
           ELSE IF CreatePath(p) \in DOMAIN revs
           THEN \* FileExistsError
                /\ Ends(p, Result("pull", "crash", "mkdir", NoTip, FALSE, FALSE, {}))
                /\ UNCHANGED <<revs, tags, pushed>>
           ELSE /\ revs' = revs @@ (CreatePath(p) :> NewRevDir)
                /\ Goes(p, "made")
                /\ UNCHANGED <<tags, pushed>>
        /\ UNCHANGED <<cwd_ok, remote_ok, ackr_exists, entries, by_date, head,
                       up_tip, up_title, state_log, fetched>>

\* ln -rs into the by-date directory, then create_tag()
CTag(p) ==
    LET pr == running[p].pr
        tip == running[p].tip
        link == ByDateLink(pr.ackr_path, tip.ackr_seq)
    IN  /\ running[p].pc = "made"
        /\ by_date' = IF link \in DOMAIN by_date THEN by_date
                      ELSE by_date @@ (link :> tip.ackr_path)
        /\ tags' = TagsAfterCreate(tags, tip)
        /\ pushed' = PushedAfterCreate(tags, tip)
        /\ Goes(p, "tagged")
        /\ UNCHANGED <<cwd_ok, remote_ok, ackr_exists, entries, revs, head, up_tip,
                       up_title, state_log, fetched>>

\* pr.json, HEAD, base.diff and review-checklist.md are written.
CWrite(p) ==
    /\ running[p].pc = "tagged"
    /\ revs' = [revs EXCEPT ![CreatePath(p)] =
                                Artifacts(running[p].pr, running[p].tip)]
    /\ Goes(p, "written")
    /\ UNCHANGED <<cwd_ok, remote_ok, ackr_exists, entries, by_date, tags, pushed,
                   head, up_tip, up_title, state_log, fetched>>

\* pull, after _pull returned changed: git checkout <tag>, the state commit.
CFinish(p) ==
    LET tip == running[p].tip
        newhead == CheckoutTag(tags, tip.ackr_tag)
        current == CurrentAckrTags(tags, newhead)
    IN  /\ running[p].pc = "written"
        /\ head' = newhead
        /\ IF current = {}
           THEN /\ Ends(p, Result("pull", "die", "head", tip, TRUE, FALSE,
                                  {"Got new tip"}))
                /\ UNCHANGED state_log
           ELSE /\ Ends(p, Result("pull", "ok", "", tip, TRUE, FALSE,
                                  {"Got new tip"}))
                /\ \E cur \in current :
                     state_log' = state_log \cup
                                     {<<"Started review", CurrentTag(cur)>>}
        /\ UNCHANGED <<cwd_ok, remote_ok, ackr_exists, entries, revs, by_date,
                       tags, pushed, up_tip, up_title, fetched>>

InitConcurrent ==
    /\ cwd_ok = TRUE
    /\ remote_ok = TRUE
    /\ ackr_exists = FALSE
    /\ entries = {}
    /\ revs = <<>>
    /\ by_date = <<>>
    /\ tags = <<>>
    /\ pushed = {}
    /\ head = MasterSha
    /\ up_tip \in Commits
    /\ up_title \in UpstreamTitles
    /\ state_log = {}
    /\ last = NoResult
    /\ fetched = NoRef
    /\ running = [p \in Procs |-> Idle]

\* The author pushes while the invocations run.
PushDuring ==
    /\ \E c \in Commits \ {up_tip} : up_tip' = c
    /\ UNCHANGED <<cwd_ok, remote_ok, ackr_exists, entries, revs, by_date, tags,
                   pushed, head, up_title, state_log, fetched, running, last>>

NextConcurrent ==
    \/ \E p \in Procs : CFetch(p)
    \/ \E p \in Procs : CDerive(p)
    \/ \E p \in Procs : CMake(p)
    \/ \E p \in Procs : CTag(p)
    \/ \E p \in Procs : CWrite(p)
    \/ \E p \in Procs : CFinish(p)
    \/ PushDuring

SpecConcurrent == InitConcurrent /\ [][NextConcurrent]_vars

(***************************************************************************)
(* SpecDistinct: pulls one after the other, the author moving the branch   *)
(* among commits whose short hashes all differ, earlier ones included.     *)
(***************************************************************************)
DistinctCommits == {Sha(k, 0) : k \in 1..MaxTips}

PushDistinct ==
    /\ \E c \in DistinctCommits \ {up_tip} : up_tip' = c
    /\ last' = NoResult
    /\ UNCHANGED <<cwd_ok, remote_ok, ackr_exists, entries, revs, by_date, tags,
                   pushed, head, up_title, state_log, fetched, running>>

InitDistinct ==
    /\ cwd_ok = TRUE
    /\ remote_ok = TRUE
    /\ ackr_exists = FALSE
    /\ entries = {}
    /\ revs = <<>>
    /\ by_date = <<>>
    /\ tags = <<>>
    /\ pushed = {}
    /\ head = MasterSha
    /\ up_tip \in DistinctCommits
    /\ up_title \in UpstreamTitles
    /\ state_log = {}
    /\ last = NoResult
    /\ fetched = NoRef
    /\ running = NoPulls

NextDistinct ==
    \/ PullOnline(FALSE, GoodBase)
    \/ PushDistinct
    \/ UpstreamRename

SpecDistinct == InitDistinct /\ [][NextDistinct]_vars

(***************************************************************************)
(* SpecNav: a pull request whose branch grows by one commit per push, and  *)
(* the reviewer walking through its commits.                               *)
(***************************************************************************)
\* The author pushes one more commit onto the branch.
PushOne ==
    /\ \E k \in 1..(MaxBranch - 1) :
          /\ up_tip = LinearTip(k)
          /\ up_tip' = LinearTip(k + 1)
    /\ last' = NoResult
    /\ UNCHANGED <<cwd_ok, remote_ok, ackr_exists, entries, revs, by_date, tags,
                   pushed, head, up_title, state_log, fetched, running>>

InitNav ==
    /\ cwd_ok \in BOOLEAN
    /\ remote_ok \in BOOLEAN
    /\ ackr_exists = FALSE
    /\ entries = {}
    /\ revs = <<>>
    /\ by_date = <<>>
    /\ tags = <<>>
    /\ pushed = {}
    /\ head = MasterSha
    /\ up_tip \in {LinearTip(k) : k \in 1..MaxBranch}
    /\ up_title = CHOOSE t \in UpstreamTitles : TRUE
    /\ state_log = {}
    /\ last = NoResult
    /\ fetched = NoRef
    /\ running = NoPulls

NextNav ==
    \/ PullOnline(FALSE, GoodBase)
    \/ Start
    \/ NextCmd
    \/ Prev
    \/ PushOne
    \/ FixEnvironment

SpecNav == InitNav /\ [][NextNav]_vars

(***************************************************************************)
(* SpecLookup: the current-revision lookup (through `review`) on storage   *)
(* as it may be found on disk: ACKR_DIR is a plain directory, also synced  *)
(* through git by _pull_ackr_state, so that it may hold several            *)
(* directories for one number or one sequence number, or none.             *)
(***************************************************************************)
LookupPrDirs == { PrDirName(PrNumber, PrLogin, <<"f", "i", "x">>),
                  PrDirName(PrNumber, <<"b", "o">>, <<"f", "i", "x">>),
                  PrDirName(4, PrLogin, <<"f", "i", "x">>) }
LookupRevDirs == { RevDirName(1, Sha(1, 0)), RevDirName(2, Sha(2, 0)),
                   RevDirName(2, Sha(3, 0)), RevDirName(12, Sha(4, 0)) }
LookupTags == { TagName(PrNumber, 1, PrLogin, <<"f", "i", "x">>),
                TagName(PrNumber, 2, PrLogin, <<"f", "i", "x">>),
                TagName(4, 12, PrLogin, <<"f", "i", "x">>) }

InitLookup ==
    /\ cwd_ok \in BOOLEAN
    /\ remote_ok \in BOOLEAN
    /\ ackr_exists = TRUE
    /\ \E E \in SUBSET LookupPrDirs, R \in SUBSET LookupRevDirs :
          /\ entries = E \cup {ByDateName}
          /\ revs = [p \in E \X R |->
                       [NewRevDir EXCEPT !.HEAD = {Sha(DecVal(SplitDot(p[2])[1]), 0)},
                                         !.checklist = {[tip |-> Sha(DecVal(SplitDot(p[2])[1]), 0),
                                                         edited |-> FALSE]}]]
    /\ by_date = <<>>
    /\ \E t \in LookupTags : tags = (t :> Sha(1, 0))
    /\ pushed = {}
    /\ head = Sha(1, 0)
    /\ up_tip = Sha(1, 0)
    /\ up_title \in UpstreamTitles
    /\ state_log = {}
    /\ last = NoResult
    /\ fetched = NoRef
    /\ running = NoPulls

NextLookup ==
    \/ Review
    \/ FixEnvironment

SpecLookup == InitLookup /\ [][NextLookup]_vars

(***************************************************************************)
(* Claims about pull.                                                      *)
(***************************************************************************)
\* The last step was a pull that ran to its end.
PullDone(r) == r.cmd = "pull" /\ r.status = "ok"

\* C1: when the pull request has one revision directory and a pull follows a
\* successful pull of the same tip, the second pull changes neither the
\* revision directories, the tags nor the by-date index (one of each remains),
\* derives the same sequence number and storage path, and reports "not changed".
C1_RepullIdempotent ==
    [][(/\ PullDone(last) /\ PullDone(last')
        /\ last'.tip.tip_sha = last.tip.tip_sha
        /\ Cardinality(DOMAIN revs) = 1)
        => /\ last'.tip.ackr_seq = last.tip.ackr_seq
           /\ last'.tip.ackr_path = last.tip.ackr_path
           /\ last'.tip.ackr_tag = last.tip.ackr_tag
           /\ ~last'.changed /\ "PR up to date" \in last'.out
           /\ revs' = revs /\ tags' = tags /\ by_date' = by_date
           /\ Cardinality(DOMAIN revs') = 1
           /\ Cardinality(DOMAIN tags') = 1
           /\ Cardinality(DOMAIN by_date') = 1
      ]_vars

\* C1 witness: the second of two pulls in a row of the same tip has run, on a
\* pull request with one revision.
C1_Witness ==
    /\ PullDone(last) /\ last.again /\ ~last.changed
    /\ Cardinality(DOMAIN revs) = 1
    /\ last.tip.ackr_path \in DOMAIN revs

\* A pull that got as far as deciding whether the tip is new.
PullDecided(r) ==
    r.cmd = "pull" /\ r.why \notin {"location", "remote", "fetch", "derive"}

\* C2 (as claimed): with one revision stored, a pull of a tip that is none of
\* the stored ones creates a second revision directory numbered 2 and a new
\* tag, and leaves the first directory's files and the first tag as they were.
C2_SecondRevision ==
    [][(/\ Cardinality(DOMAIN revs) = 1
        /\ RevDirsOf(revs, up_tip) = {}
        /\ PullDecided(last'))
        => /\ Cardinality(DOMAIN revs') = 2
           /\ last'.tip.ackr_seq = 2
           /\ last'.tip.ackr_path \in DOMAIN revs' \ DOMAIN revs
           /\ StartsWith(last'.tip.ackr_path[2], <<"2", ".">>)
           /\ last'.tip.ackr_tag \in DOMAIN tags' \ DOMAIN tags
           /\ \A p \in DOMAIN revs : p \in DOMAIN revs' /\ revs'[p] = revs[p]
           /\ \A t \in DOMAIN tags : t \in DOMAIN tags' /\ tags'[t] = tags[t]
      ]_vars

\* C3 (as claimed): a derivation that finds no directory ending with the tip's
\* short hash takes count + 1; one that finds such a directory takes the
\* sequence number of that directory, wherever it stands among the existing ones.
C3_SeqOfExistingDir ==
    [][PullDone(last')
        => LET dirs == {n \in Listing(last'.tip.ackr_path[1]) : GlobNumbered(n)}
               shortsha == Take(last'.tip.tip_sha, ShortLen)
           IN  IF \A n \in dirs : ~EndsWith(n, shortsha)
               THEN last'.tip.ackr_seq = Cardinality(dirs) + 1
               ELSE \A n \in dirs :
                       EndsWith(n, shortsha)
                           => last'.tip.ackr_seq = DecVal(SplitDot(n)[1])
      ]_vars

\* C4: whatever the title does upstream, the pull request number + author has at
\* most one storage directory; every revision lives in it and every tag and
\* derived path carries the slug of that directory's name.
C4_OneStorageDir ==
    /\ Cardinality(PrDirs) <= 1
    /\ \A p \in DOMAIN revs : p[1] \in PrDirs
    /\ \A d \in PrDirs :
        /\ \A t \in DOMAIN tags :
              EndsWith(t, <<".">> \o PrLogin \o <<".">> \o SplitDot(d)[3])
        /\ PullDone(last) =>
              /\ last.tip.ackr_path[1] = d
              /\ EndsWith(last.tip.ackr_tag, <<".">> \o SplitDot(d)[3])

\* C4 witness: a second revision was pulled after a rename changed the slug.
C4_Witness ==
    /\ PullDone(last) /\ last.changed
    /\ last.tip.ackr_seq = 2
    /\ \E d \in PrDirs : SplitDot(d)[3] # Slug(up_title)

\* C9 (as claimed): a command that ends on an environment error has created
\* neither the storage directory nor the by-date directory.
C9_EnvErrorBeforeMutation ==
    [][(last'.status = "die" /\ last'.why \in {"location", "remote"})
        => (ackr_exists' = ackr_exists /\ entries' = entries)]_vars


\* A full-length hash: exactly 40 hexadecimal characters.
WellFormedHash(h) == Len(h) = ShaLen /\ \A i \in 1..Len(h) : IsHex(h[i])

\* C6 (as claimed): a derivation whose base is no well-formed full hash fails,
\* so every pull that ran to its end, and every revision stored, has a
\* well-formed base; and a pull that failed in the derivation has created no
\* revision directory, tag or by-date entry.
C6_MalformedBaseRejected ==
    [][last'.cmd = "pull"
        => /\ PullDone(last') => WellFormedHash(last'.tip.base_sha)
           /\ \A p \in DOMAIN revs' : \A d \in revs'[p].base_diff :
                 WellFormedHash(d.base)
           /\ last'.why = "derive"
                 => (revs' = revs /\ tags' = tags /\ by_date' = by_date)
      ]_vars


(***************************************************************************)
(* Claims about the lookups.                                               *)
(***************************************************************************)
\* C5: the lookup of tag ackr/{num}.{seq}... gives the one directory starting
\* with "{seq}." inside the one storage directory starting with "{num}.", and
\* ends in an error, giving no path, when either is missing or not the only one.
C5_LookupExactlyOne ==
    (last.cmd = "review" /\ last.why \notin {"location", "remote", "head"})
    => \A tag \in CurrentAckrTags(tags, head) :
          LET f == SplitDot(CurrentTag(tag))
              prs == {n \in entries : StartsWith(n, f[1] \o <<".">>)}
              cands == {p \in DOMAIN revs :
                          p[1] \in prs /\ StartsWith(p[2], f[2] \o <<".">>)}
          IN  IF Cardinality(prs) = 1 /\ Cardinality(cands) = 1
              THEN last.status = "ok" /\ last.out = cands
              ELSE last.status = "crash" /\ last.out = {}

\* C5 witness: a lookup has ended in an error with two directories starting
\* with the tag's sequence number inside the one storage directory.
C5_Witness ==
    /\ last.cmd = "review" /\ last.status = "crash"
    /\ \E tag \in CurrentAckrTags(tags, head) :
          LET f == SplitDot(CurrentTag(tag))
          IN  /\ Cardinality({n \in entries : StartsWith(n, f[1] \o <<".">>)}) = 1
              /\ Cardinality({p \in DOMAIN revs :
                                /\ StartsWith(p[1], f[1] \o <<".">>)
                                /\ StartsWith(p[2], f[2] \o <<".">>)}) = 2


\* The sequence number a revision directory's name starts with.
SeqOfPath(path) == DecVal(SplitDot(path[2])[1])

\* C7 (as claimed): `revs` lists the revision directories newest first, in
\* descending order of sequence number, however many there are, and the two
\* that `interdiff` compares are the latest revision and the one before it.
C7_NewestFirst ==
    /\ (last.cmd = "revs" /\ last.status = "ok")
         => \A dirs \in last.out :
               /\ {dirs[i] : i \in 1..Len(dirs)} = DOMAIN revs
               /\ \A i \in 1..Len(dirs), j \in 1..Len(dirs) :
                     i < j => SeqOfPath(dirs[i]) > SeqOfPath(dirs[j])
    /\ (last.cmd = "interdiff" /\ last.status = "ok")
         => \A pair \in last.out :
               /\ SeqOfPath(pair.rev) = Cardinality(DOMAIN revs)
               /\ SeqOfPath(pair.prev_rev) = Cardinality(DOMAIN revs) - 1


\* C8 (as claimed): when the signing tool fails during `ack`, the command does
\* not abort: the unsigned message is still printed and the run goes on to
\* push the tag and commit the state.
C8_SigningFailureContinues ==
    (last.cmd = "ack" /\ last.why = "gpg")
        => /\ last.status = "ok"
           /\ {"printed", "pushed", "committed"} \subseteq last.steps

\* C10: an `ack` run that read, from stdin, a file or the editor, a message
\* without "ACK " followed by the first 6 characters of HEAD exits with an
\* error before signing: no signature file changes and no tag is pushed.
C10_MarkerRequired ==
    [][ ( /\ last'.cmd = "ack"
          /\ last'.source \in {"stdin", "file", "editor"}
          /\ "read" \in last'.steps
          /\ ~Contains(last'.msg, <<"A", "C", "K", " ">> \o SubSeq(head, 1, 6)) )
        => /\ last'.status = "die"
           /\ last'.steps \cap {"signed", "pushed"} = {}
           /\ pushed' = pushed
           /\ DOMAIN revs' = DOMAIN revs
           /\ \A d \in DOMAIN revs : revs'[d].ack_asc = revs[d].ack_asc ]_vars

\* A message without the marker came back from the editor, in a revision
\* directory that holds a signature from an earlier run.
C10_Witness ==
    /\ last.cmd = "ack"
    /\ last.source = "editor"
    /\ last.why = "marker"
    /\ \E d \in DOMAIN revs : revs[d].ack_asc # {}


\* C11: the existing-tips scan never fails on an unreadable entry: over any
\* mix of revision directories with readable and unreadable HEAD files it
\* ends normally, its keys are exactly the readable tips, and each key maps to
\* the sequence number of a directory whose HEAD holds it.
C11_ScanSkipsUnreadable ==
    /\ last.why # "scan"
    /\ \A pr \in PrDirs :
          LET scan == ScanTips(pr)
              dirs == {p \in DOMAIN revs : p[1] = pr}
          IN  /\ scan.status = "ok"
              /\ DOMAIN scan.map = {t \in Commits : \E p \in dirs : revs[p].HEAD = {t}}
              /\ \A t \in DOMAIN scan.map :
                    \E p \in dirs : revs[p].HEAD = {t} /\ SeqOfPath(p) = scan.map[t]

\* A pull found its tip among the stored ones while another revision
\* directory of the pull request had no readable HEAD.
C11_Witness ==
    /\ last.cmd = "pull"
    /\ last.status = "ok"
    /\ ~last.changed
    /\ \E p \in DOMAIN revs, q \in DOMAIN revs :
          /\ p[1] = q[1]
          /\ revs[p].HEAD = {}
          /\ revs[q].HEAD = {up_tip}


\* C12: nothing in the pull path keeps two interleaved pulls of one pull
\* request from allocating the same sequence number: when both derived their
\* tip from the same listing, for tips whose short hashes differ and are not
\* in that listing, and both went on to make their directory, the two
\* directories exist side by side and carry the same sequence number.
C12_DoubleAllocation ==
    \A p \in Procs, q \in Procs :
        ( /\ p # q
          /\ running[p].pc \in {"made", "tagged", "written"}
          /\ running[q].pc \in {"made", "tagged", "written"}
          /\ running[p].pr.ackr_path = running[q].pr.ackr_path
          /\ running[p].preexisting = running[q].preexisting
          /\ Take(running[p].tip.tip_sha, ShortLen) # Take(running[q].tip.tip_sha, ShortLen)
          /\ \A n \in running[p].preexisting :
                /\ ~EndsWith(n, Take(running[p].tip.tip_sha, ShortLen))
                /\ ~EndsWith(n, Take(running[q].tip.tip_sha, ShortLen)) )
        => \E d \in DOMAIN revs, e \in DOMAIN revs :
              /\ d # e
              /\ d[1] = e[1]
              /\ revs[d].HEAD \cup revs[e].HEAD \subseteq
                    {running[p].tip.tip_sha, running[q].tip.tip_sha}
              /\ EndsWith(d[2], Take(running[p].tip.tip_sha, ShortLen))
              /\ EndsWith(e[2], Take(running[q].tip.tip_sha, ShortLen))
              /\ SeqOfPath(d) = SeqOfPath(e)

\* Both invocations have finished and left two revision directories of the
\* pull request that carry the same sequence number, for different tips.
C12_Witness ==
    /\ \A p \in Procs : running[p].pc = "done"
    /\ \E d \in DOMAIN revs, e \in DOMAIN revs :
          /\ d # e
          /\ d[1] = e[1]
          /\ SeqOfPath(d) = SeqOfPath(e)
          /\ revs[d].HEAD # {}
          /\ revs[e].HEAD # {}
          /\ revs[d].HEAD # revs[e].HEAD


\* C13: after sequential pulls over tips whose short hashes all differ, tips
\* that come back included, the revision directories of the pull request
\* carry exactly the sequence numbers 1..n, each once, and no two of them
\* hold the same HEAD.
C13_DenseSequence ==
    \A pr \in PrDirs :
        LET dirs == {d \in DOMAIN revs : d[1] = pr}
        IN  /\ {SeqOfPath(d) : d \in dirs} = 1..Cardinality(dirs)
            /\ \A d \in dirs, e \in dirs :
                  d # e => /\ SeqOfPath(d) # SeqOfPath(e)
                           /\ revs[d].HEAD # revs[e].HEAD
            /\ \A d \in dirs : revs[d].HEAD # {}

\* Every commit has been pulled and the branch is back on the first one
\* pulled, which the last pull found stored as revision 1.
C13_Witness ==
    /\ PullDone(last)
    /\ ~last.changed
    /\ Cardinality(DOMAIN revs) = MaxTips
    /\ \E d \in DOMAIN revs : SeqOfPath(d) = 1 /\ revs[d].HEAD = {up_tip}


\* C14: a next/prev call that finds the marker at position idx of the branch's
\* oldest-first commit list checks out the commit at idx + move and sets the
\* marker to it when that position is on the branch; otherwise it exits with
\* an error and leaves marker and checkout as they were.  After a start or
\* next/prev call that succeeded, the marker names a commit of the branch,
\* the one that is checked out.
C14_MarkerStaysOnBranch ==
    [][ \A r \in last'.out :
          /\ ( /\ last'.cmd \in {"next", "prev"}
               /\ r.rev_dir \in DOMAIN revs
               /\ revs[r.rev_dir].current_commit # {}
               /\ revs[r.rev_dir].HEAD # {} )
             => LET branch == BranchOf(HeadOf(r.rev_dir[1], r.rev_dir[2]))
                    at == {i \in 1..Len(branch) :
                             revs[r.rev_dir].current_commit = {Abbrev(branch[i])}}
                IN  \A idx \in at :
                       IF idx + r.move >= 1 /\ idx + r.move <= Len(branch)
                       THEN /\ last'.status = "ok"
                            /\ head' = branch[idx + r.move]
                            /\ revs'[r.rev_dir].current_commit =
                                  {Abbrev(branch[idx + r.move])}
                       ELSE /\ last'.status = "die"
                            /\ head' = head
                            /\ revs' = revs
          /\ ( /\ last'.cmd \in {"start", "next", "prev"}
               /\ last'.status = "ok" )
             => LET branch == BranchOf(HeadOf(r.rev_dir[1], r.rev_dir[2]))
                IN  \E i \in 1..Len(branch) :
                       /\ revs'[r.rev_dir].current_commit = {Abbrev(branch[i])}
                       /\ head' = branch[i]
      ]_vars

\* prev was asked for with the marker on the oldest commit of a branch of
\* several commits.
C14_Witness ==
    /\ last.cmd = "prev"
    /\ last.why = "base"
    /\ \E r \in last.out :
          /\ Len(BranchOf(HeadOf(r.rev_dir[1], r.rev_dir[2]))) = MaxBranch
          /\ revs[r.rev_dir].current_commit = {Abbrev(head)}

=============================================================================
